---- MODULE Spec2Model ----
(***************************************************************************)
(* Log4MCPClient (src/example_client.py): a blocking JSON-RPC 2.0 client   *)
(* over one TCP socket.                                                    *)
(*                                                                         *)
(* Text (a Python str, or the bytes on the wire) is a sequence of atoms.   *)
(* An atom is one character, or a run of ordinary letters that is never    *)
(* split ("jsonrpc", "myapp").  The characters that matter to JSON and to  *)
(* line framing are atoms of their own:                                    *)
(*    "{" "}" "[" "]" ":" ","   structural characters                      *)
(*    Q                         the double quote                           *)
(*    "LF"  "SP"                the raw line feed byte and the space       *)
(*    "BS"                      a backslash                                *)
(*    "\\n" "\\q" "\\b"         the escapes  \n  \"  \\  on the wire       *)
(*    "0" .. "9"  "-"           decimal digits and the minus sign          *)
(*    "BAD8"                    a byte that is not valid UTF-8             *)
(***************************************************************************)
EXTENDS Integers, Sequences, FiniteSets, TLC

Q == "\""

Digits == <<"0", "1", "2", "3", "4", "5", "6", "7", "8", "9">>

DigitSet == {Digits[i] : i \in 1..10}

Whitespace == {"LF", "SP"}

(***************************************************************************)
(* Python values.  Every value is a record [k, v]: k the type, v the       *)
(* payload (text for str and int, <<key, value>> pairs in insertion order  *)
(* for dict, the items for list).                                          *)
(***************************************************************************)
PyNone == [k |-> "none", v |-> <<>>]

PyStr(s) == [k |-> "str", v |-> s]

PyInt(digits) == [k |-> "int", v |-> digits]

PyBool(word) == [k |-> "bool", v |-> <<word>>]

PyDict(members) == [k |-> "dict", v |-> members]

PyList(items) == [k |-> "list", v |-> items]

\* Python truthiness of a value (used by `params or {}`).
Truthy(x) ==
    CASE x.k = "none" -> FALSE
      [] x.k = "bool" -> x.v = <<"true">>
      [] x.k = "int"  -> x.v # <<"0">>
      [] OTHER        -> Len(x.v) > 0

\* dict lookup: the index of key in the members, 0 when absent.
DictIndex(members, key) ==
    IF \E i \in 1..Len(members) : members[i][1] = key
    THEN CHOOSE i \in 1..Len(members) : members[i][1] = key
    ELSE 0

HasKey(x, key) == x.k = "dict" /\ DictIndex(x.v, key) > 0

Get(x, key) == x.v[DictIndex(x.v, key)][2]

\* d[key] = val: replaces the value of an existing key, else appends.
DictSet(members, key, val) ==
    LET i == DictIndex(members, key)
    IN  IF i = 0 THEN Append(members, <<key, val>>)
        ELSE [members EXCEPT ![i] = <<key, val>>]

(***************************************************************************)
(* str(int) for a non-negative int: its decimal digits.                    *)
(***************************************************************************)
RECURSIVE str(_)
str(n) ==
    IF n < 10 THEN <<Digits[n + 1]>>
    ELSE Append(str(n \div 10), Digits[(n % 10) + 1])

(***************************************************************************)
(* json.dumps with the default separators (", " and ": ") and string       *)
(* escaping.                                                               *)
(***************************************************************************)
EscapeChar(c) ==
    CASE c = "LF" -> "\\n"
      [] c = Q    -> "\\q"
      [] c = "BS" -> "\\b"
      [] OTHER    -> c

Escape(s) == [i \in 1..Len(s) |-> EscapeChar(s[i])]

RECURSIVE json_dumps(_), DumpsMembers(_, _), DumpsItems(_, _)
json_dumps(x) ==
    CASE x.k = "none" -> <<"null">>
      [] x.k = "str"  -> <<Q>> \o Escape(x.v) \o <<Q>>
      [] x.k = "int"  -> x.v
      [] x.k = "bool" -> x.v
      [] x.k = "dict" -> <<"{">> \o DumpsMembers(x.v, 1) \o <<"}">>
      [] x.k = "list" -> <<"[">> \o DumpsItems(x.v, 1) \o <<"]">>

DumpsMembers(m, i) ==
    IF i > Len(m) THEN <<>>
    ELSE (IF i > 1 THEN <<",", "SP">> ELSE <<>>)
         \o <<Q>> \o Escape(m[i][1]) \o <<Q, ":", "SP">>
         \o json_dumps(m[i][2]) \o DumpsMembers(m, i + 1)

DumpsItems(xs, i) ==
    IF i > Len(xs) THEN <<>>
    ELSE (IF i > 1 THEN <<",", "SP">> ELSE <<>>)
         \o json_dumps(xs[i]) \o DumpsItems(xs, i + 1)

(***************************************************************************)
(* json.loads: one JSON document, surrounded by optional whitespace.       *)
(* A scan result is [ok, val, pos]: pos is the index after the value.      *)
(***************************************************************************)
ParseFail == [ok |-> FALSE, val |-> PyNone, pos |-> 0]

ParseOk(val, pos) == [ok |-> TRUE, val |-> val, pos |-> pos]

RECURSIVE SkipWs(_, _)
SkipWs(s, i) ==
    IF i <= Len(s) /\ s[i] \in Whitespace THEN SkipWs(s, i + 1) ELSE i

UnescapeChar(c) ==
    CASE c = "\\n" -> "LF"
      [] c = "\\q" -> Q
      [] c = "\\b" -> "BS"
      [] OTHER     -> c

\* The text of a string literal; i is the index after the opening quote.
\* A raw control character or a lone backslash inside it is an error.
RECURSIVE ScanString(_, _, _)
ScanString(s, i, acc) ==
    IF i > Len(s) THEN ParseFail
    ELSE IF s[i] = Q THEN ParseOk(PyStr(acc), i + 1)
    ELSE IF s[i] \in {"LF", "BS"} THEN ParseFail
    ELSE ScanString(s, i + 1, Append(acc, UnescapeChar(s[i])))

\* A number: an optional "-", then "0" or a run of digits that does not
\* start with "0".
RECURSIVE ScanNumber(_, _, _)
ScanNumber(s, i, acc) ==
    IF i <= Len(s) /\ s[i] \in DigitSet /\ acc \notin {<<"0">>, <<"-", "0">>}
    THEN ScanNumber(s, i + 1, Append(acc, s[i]))
    ELSE ParseOk(PyInt(acc), i)

RECURSIVE ParseValue(_, _), ParseObject(_, _, _, _), ParseArray(_, _, _, _)
ParseValue(s, i) ==
    IF i > Len(s) THEN ParseFail
    ELSE CASE s[i] = Q    -> ScanString(s, i + 1, <<>>)
           [] s[i] = "{"  -> ParseObject(s, SkipWs(s, i + 1), <<>>, TRUE)
           [] s[i] = "["  -> ParseArray(s, SkipWs(s, i + 1), <<>>, TRUE)
           [] s[i] \in DigitSet -> ScanNumber(s, i, <<>>)
           [] s[i] = "-" -> IF i < Len(s) /\ s[i + 1] \in DigitSet
                            THEN ScanNumber(s, i + 1, <<"-">>)
                            ELSE ParseFail
           [] s[i] = "null" -> ParseOk(PyNone, i + 1)
           [] s[i] \in {"true", "false"} -> ParseOk(PyBool(s[i]), i + 1)
           [] OTHER -> ParseFail

\* i is the index of the first member's key, or of "}" when first is TRUE.
ParseObject(s, i, acc, first) ==
    IF i > Len(s) THEN ParseFail
    ELSE IF first /\ s[i] = "}" THEN ParseOk(PyDict(acc), i + 1)
    ELSE IF s[i] # Q THEN ParseFail
    ELSE LET key == ScanString(s, i + 1, <<>>)
             c   == SkipWs(s, key.pos)
             val == ParseValue(s, SkipWs(s, c + 1))
             e   == SkipWs(s, val.pos)
         IN  IF ~key.ok \/ c > Len(s) \/ s[c] # ":" THEN ParseFail
             ELSE IF ~val.ok \/ e > Len(s) THEN ParseFail
             ELSE IF s[e] = ","
                  THEN ParseObject(s, SkipWs(s, e + 1),
                                   DictSet(acc, key.val.v, val.val), FALSE)
             ELSE IF s[e] = "}"
                  THEN ParseOk(PyDict(DictSet(acc, key.val.v, val.val)), e + 1)
             ELSE ParseFail

ParseArray(s, i, acc, first) ==
    IF i > Len(s) THEN ParseFail
    ELSE IF first /\ s[i] = "]" THEN ParseOk(PyList(acc), i + 1)
    ELSE LET val == ParseValue(s, i)
             e   == SkipWs(s, val.pos)
         IN  IF ~val.ok \/ e > Len(s) THEN ParseFail
             ELSE IF s[e] = ","
                  THEN ParseArray(s, SkipWs(s, e + 1), Append(acc, val.val), FALSE)
             ELSE IF s[e] = "]" THEN ParseOk(PyList(Append(acc, val.val)), e + 1)
             ELSE ParseFail

json_loads(s) ==
    LET r == ParseValue(s, SkipWs(s, 1))
    IN  IF r.ok /\ SkipWs(s, r.pos) > Len(s) THEN ParseOk(r.val, r.pos)
        ELSE ParseFail

(***************************************************************************)
(* Bounds and the inputs the operations are driven with.                   *)
(***************************************************************************)
\* _send_request is invoked at most MaxCalls times in a run.
MaxCalls == 10

None == PyNone

\* One plain logger id and one that contains a line feed.
LoggerIds == {PyStr(<<"myapp">>), PyStr(<<"my", "LF", "app">>)}

\* close() is invoked at most MaxCloses times on one client by the open
\* specifications.
MaxCloses == 2

\* The specification with fairness makes at most MaxLiveCalls calls.
MaxLiveCalls == 2

\* The level is free text to the client: one member of the TRACE..FATAL
\* enumeration and one that is not.
Levels == {PyStr(<<"INFO">>), PyStr(<<"BOGUS">>)}

Messages == {PyStr(<<"line1", "LF", "line2">>)}

\* recv(4096): at most this many bytes are returned by one receive.
RecvMax == 4096

VARIABLES
    pc,          \* "new" (in __init__, before _connect), "idle", "send",
                 \* "recv" (blocked in socket.recv), "dead" (__init__ raised)
    host, port, verbose,   \* self.host, self.port, self.verbose
    socket,      \* self.socket: "None" or "sock" (a socket object)
    fd,          \* the socket object's OS state: "unopened", "connected", "closed"
    request_id,  \* self.request_id
    connects,    \* number of socket.connect attempts so far
    calls,       \* number of _send_request invocations so far
    op,          \* the operation in progress, or the last one
    opCalls,     \* _send_request invocations made by that operation
    ids,         \* the "id" of every request envelope built, in order
    request,     \* the envelope built by the current or last call
    line,        \* the bytes handed to socket.send
    sent,        \* "no", "ok" (send returned), "err" (send raised)
    written,     \* the value send returned: how many bytes it accepted
    recvd,       \* "no", "ok" (recv returned), "err" (recv raised)
    received,    \* the bytes recv returned
    io,          \* the socket I/O issued by the current or last call
    released,    \* how the last socket.close() ended: "no", "ok", "err"
    outcome,     \* how the last operation ended: [kind, val, err]
    stderr,      \* the diagnostic lines printed by the current operation
    peer,        \* the server during the current receive: "live" (it will
                 \* send or close) or "silent" (it will do neither)
    closes,      \* number of close() invocations so far
    input,       \* the last step taken and what the environment chose in it
    twin,        \* the fields of the other client instance
    active,      \* which instance the variables above belong to: "A" or "B"
    mainPc,      \* main(): "off" (no driver), "try", "finally", "exited"
    exitStatus   \* the status main() exits with

vars == <<pc, host, port, verbose, socket, fd, request_id, connects, calls,
          op, opCalls, ids, request, line, sent, written, recvd, received,
          io, released, outcome, stderr, peer, closes, input,
          twin, active, mainPc, exitStatus>>

\* The fields of the instance in hand and the trace of what it did.
clientVars == <<pc, host, port, verbose, socket, fd, request_id, connects, calls,
                op, opCalls, ids, request, line, sent, written, recvd, received,
                io, released, outcome, stderr, peer, closes, input>>

\* What belongs to no single client: the other instance and the driver.
world == <<twin, active, mainPc, exitStatus>>

config == <<host, port, verbose>>

callVars == <<request, line, sent, written, recvd, received, io>>

NoOutcome == [kind |-> "none", val |-> None, err |-> ""]

Return(val) == [kind |-> "return", val |-> val, err |-> ""]

Raise(err) == [kind |-> "raise", val |-> None, err |-> err]

Op(name, logger_id, level, message) ==
    [name |-> name, logger_id |-> logger_id, level |-> level,
     message |-> message, fdAtStart |-> fd]

\* A step and the choices made in it: the operation called (op), what
\* send returned (n), the server's mood (p), the bytes recv returned (data),
\* and whether a socket was created or a release raised (flag).
Input(act, o, n, p, data, flag) ==
    [act |-> act, op |-> o, n |-> n, p |-> p, data |-> data, flag |-> flag]

NoOp ==
    [name |-> "", logger_id |-> None, level |-> None, message |-> None,
     fdAtStart |-> ""]

Step(act) == Input(act, NoOp, 0, "", <<>>, FALSE)

NoInput == Step("none")

\* The fields of one instance, as a record.
Fields ==
    [pc |-> pc, host |-> host, port |-> port, verbose |-> verbose,
     socket |-> socket, fd |-> fd, request_id |-> request_id,
     connects |-> connects, calls |-> calls, op |-> op, opCalls |-> opCalls,
     ids |-> ids, request |-> request, line |-> line, sent |-> sent,
     written |-> written, recvd |-> recvd, received |-> received, io |-> io,
     released |-> released, outcome |-> outcome, stderr |-> stderr,
     peer |-> peer, closes |-> closes, input |-> input]

\* __init__, lines 25-29: the fields of an instance before _connect runs.
NewClient(v) ==
    [pc |-> "new", host |-> "localhost", port |-> 3000, verbose |-> v,
     socket |-> "None", fd |-> "unopened", request_id |-> 0,
     connects |-> 0, calls |-> 0,
     op |-> [name |-> "__init__", logger_id |-> None, level |-> None,
             message |-> None, fdAtStart |-> "unopened"],
     opCalls |-> 0,
     ids |-> <<>>, request |-> None, line |-> <<>>, sent |-> "no",
     written |-> 0, recvd |-> "no", received |-> <<>>, io |-> <<>>,
     released |-> "no", outcome |-> NoOutcome, stderr |-> <<>>,
     peer |-> "live", closes |-> 0, input |-> NoInput]

\* __init__, lines 25-29: the fields before _connect runs.
ClientInit ==
    /\ pc = "new"
    /\ host = "localhost" /\ port = 3000 /\ verbose \in BOOLEAN
    /\ socket = "None" /\ fd = "unopened"
    /\ request_id = 0
    /\ connects = 0 /\ calls = 0
    /\ op = Op("__init__", None, None, None) /\ opCalls = 0
    /\ ids = <<>>
    /\ request = None /\ line = <<>>
    /\ sent = "no" /\ written = 0 /\ recvd = "no" /\ received = <<>>
    /\ io = <<>> /\ released = "no"
    /\ outcome = NoOutcome
    /\ stderr = <<>>
    /\ peer = "live" /\ closes = 0 /\ input = NoInput

\* One client, driven by any caller.
Init ==
    /\ ClientInit
    /\ twin = NewClient(FALSE) /\ active = "A"
    /\ mainPc = "off" /\ exitStatus = 0

(***************************************************************************)
(* _connect                                                                *)
(***************************************************************************)
\* socket.socket() and connect() succeed: the constructor returns.
ConnectOk ==
    /\ pc = "new"
    /\ socket' = "sock" /\ fd' = "connected"
    /\ connects' = connects + 1
    /\ stderr' = IF verbose THEN <<"Connected">> ELSE <<>>
    /\ outcome' = Return(None)
    /\ pc' = "idle"
    /\ input' = Step("ConnectOk")
    /\ UNCHANGED <<config, request_id, calls, op, opCalls, ids, callVars, released,
                   peer, closes, world>>

\* A _connect that prints the error and lets the constructor return.
AfterConnectFailureSwallow == "idle"

\* Line 42: the error leaves __init__, so no instance exists to operate on.
AfterConnectFailure == "dead"

\* socket.socket() raises (created = FALSE) or connect() raises: the error
\* is printed and re-raised out of __init__; no client instance results.
ConnectFails ==
    /\ pc = "new"
    /\ \E created \in BOOLEAN :
          /\ socket' = IF created THEN "sock" ELSE "None"
          /\ connects' = IF created THEN connects + 1 ELSE connects
          /\ input' = Input("ConnectFails", NoOp, 0, "", <<>>, created)
    /\ fd' = "unopened"
    /\ stderr' = <<"Error connecting to server">>
    /\ outcome' = Raise("OSError")
    /\ pc' = AfterConnectFailure
    /\ UNCHANGED <<config, request_id, calls, op, opCalls, ids, callVars, released,
                   peer, closes, world>>

(***************************************************************************)
(* _send_request                                                           *)
(***************************************************************************)
\* Line 55: `if not self.socket`.
NotConnected(sock) == sock = "None"

\* A counter that starts over after three requests.
NextRequestIdWrap(rid) == (rid % 3) + 1

\* Line 58: self.request_id += 1.
NextRequestId(rid) == rid + 1

\* An envelope whose id is the counter itself, not its decimal text.
BuildRequestIntId(rid, method, params) ==
    PyDict(<< <<(<<"jsonrpc">>), PyStr(<<"2.0">>)>>,
              <<(<<"id">>), PyInt(str(rid))>>,
              <<(<<"method">>), PyStr(method)>>,
              <<(<<"params">>), IF Truthy(params) THEN params ELSE PyDict(<<>>)>> >>)

\* Lines 59-64: the request envelope.
BuildRequest(rid, method, params) ==
    PyDict(<< <<(<<"jsonrpc">>), PyStr(<<"2.0">>)>>,
              <<(<<"id">>), PyStr(str(rid))>>,
              <<(<<"method">>), PyStr(method)>>,
              <<(<<"params">>), IF Truthy(params) THEN params ELSE PyDict(<<>>)>> >>)

\* Line 71: (request_json + "\n").encode().  json.dumps emits ASCII only,
\* which UTF-8 encodes byte for byte.
EncodeLine(request_json) == request_json \o <<"LF">>

\* A handler that prints the error and does not re-raise it.
ExceptHandlerSwallow(err) == Return(None)

\* Lines 81-83: the handler prints the error and re-raises it.
ExceptHandler(err) == Raise(err)

\* A call that goes back to its send step after a failure.
AfterFailureRetry == "send"

\* Where a call stands after its handler ran: the exception leaves the call.
AfterFailure == "idle"

\* Lines 55-68, entered from a facade operation o: the connected check, the
\* id allocation, the envelope and its JSON text.
SendRequest(o, method, params) ==
    /\ pc = "idle"
    /\ calls < MaxCalls
    /\ op' = o /\ opCalls' = 1
    /\ calls' = calls + 1
    /\ sent' = "no" /\ written' = 0 /\ recvd' = "no" /\ received' = <<>>
    /\ io' = <<>>
    /\ input' = Input("call", [o EXCEPT !.fdAtStart = ""], 0, "", <<>>, FALSE)
    /\ IF NotConnected(socket)
       THEN /\ outcome' = Raise("NotConnected")
            /\ pc' = "idle"
            /\ stderr' = <<>>
            /\ request' = None /\ line' = <<>>
            /\ UNCHANGED <<request_id, ids>>
       ELSE LET rid == NextRequestId(request_id)
                req == BuildRequest(rid, method, params)
            IN  /\ request_id' = rid
                /\ request' = req
                /\ ids' = Append(ids, Get(req, <<"id">>))
                /\ line' = EncodeLine(json_dumps(req))
                /\ stderr' = IF verbose THEN <<">>>">> ELSE <<>>
                /\ outcome' = NoOutcome
                /\ pc' = "send"
    /\ UNCHANGED <<config, socket, fd, connects, released, peer, closes, world>>

(***************************************************************************)
(* The facade, lines 85-160.                                               *)
(***************************************************************************)
LogMessageParams(logger_id, level, message) ==
    PyDict(<< <<(<<"loggerId">>), logger_id>>, <<(<<"level">>), level>>,
              <<(<<"message">>), message>> >>)

\* Parameters that leave the level key out when no filter is given.
GetEntriesParamsOmit(logger_id, level) ==
    IF level = None THEN PyDict(<< <<(<<"loggerId">>), logger_id>> >>)
    ELSE PyDict(<< <<(<<"loggerId">>), logger_id>>, <<(<<"level">>), level>> >>)

GetEntriesParams(logger_id, level) ==
    PyDict(<< <<(<<"loggerId">>), logger_id>>, <<(<<"level">>), level>> >>)

ClearLogsParams(logger_id) == PyDict(<< <<(<<"loggerId">>), logger_id>> >>)

SetLogLevelParams(logger_id, level) ==
    PyDict(<< <<(<<"loggerId">>), logger_id>>, <<(<<"level">>), level>> >>)

log_message ==
    \E l \in LoggerIds, lv \in Levels, m \in Messages :
        SendRequest(Op("log_message", l, lv, m), <<"log.message">>,
                    LogMessageParams(l, lv, m))

\* level defaults to None.
get_entries ==
    \E l \in LoggerIds, lv \in Levels \cup {None} :
        SendRequest(Op("get_entries", l, lv, None), <<"log.getEntries">>,
                    GetEntriesParams(l, lv))

clear_logs ==
    \E l \in LoggerIds :
        SendRequest(Op("clear_logs", l, None, None), <<"log.clear">>,
                    ClearLogsParams(l))

set_log_level ==
    \E l \in LoggerIds, lv \in Levels :
        SendRequest(Op("set_log_level", l, lv, None), <<"log.setLevel">>,
                    SetLogLevelParams(l, lv))

\* params is left to its default, None.
get_capabilities ==
    SendRequest(Op("get_capabilities", None, None, None),
                <<"system.capabilities">>, None)

(***************************************************************************)
(* The socket and the server behind it.                                    *)
(***************************************************************************)
\* socket.send returns how many bytes it accepted: from one to all of them.
SendCounts(data) == {1, Len(data) - 1, Len(data)}

\* What reached the server from the current call.
Wire == SubSeq(line, 1, written)

ResultResponse(id) ==
    json_dumps(PyDict(<< <<(<<"jsonrpc">>), PyStr(<<"2.0">>)>>,
                         <<(<<"id">>), id>>,
                         <<(<<"result">>),
                           PyDict(<< <<(<<"status">>), PyStr(<<"ok">>)>> >>)>> >>))
    \o <<"LF">>

ErrorResponse(id) ==
    json_dumps(PyDict(<< <<(<<"jsonrpc">>), PyStr(<<"2.0">>)>>,
                         <<(<<"id">>), id>>,
                         <<(<<"error">>),
                           PyDict(<< <<(<<"code">>), PyInt(<<"-", "3", "2">>)>>,
                                     <<(<<"message">>), PyStr(<<"bad">>)>> >>)>> >>))
    \o <<"LF">>

\* The stub echo responder: it answers a complete request line with a result
\* wrapping the id it read from that line, and anything else with nothing.
EchoResponder(wire) ==
    LET r == json_loads(wire)
    IN  IF /\ Len(wire) > 0 /\ wire[Len(wire)] = "LF"
           /\ r.ok /\ HasKey(r.val, <<"id">>)
        THEN {ResultResponse(Get(r.val, <<"id">>))}
        ELSE {}

\* A response that arrives in two fragments, and two responses that arrive
\* together.
FragmentHead == SubSeq(ResultResponse(PyStr(<<"1">>)), 1, 9)

FragmentTail ==
    SubSeq(ResultResponse(PyStr(<<"1">>)), 10, Len(ResultResponse(PyStr(<<"1">>))))

TwoMessages == ResultResponse(PyStr(<<"1">>)) \o ResultResponse(PyStr(<<"2">>))

\* The bytes one recv may return: nothing (the peer closed), the echo
\* responder's answer, and what a server that is not the echo responder may
\* send: an error response, a response to another id, JSON documents that are
\* no envelope, a fragment of a response, two responses at once, text that
\* is not JSON, and bytes that are not UTF-8.
ServerBytes(wire) ==
    EchoResponder(wire)
    \cup { <<>>,
           ErrorResponse(PyStr(<<"1">>)),
           ResultResponse(PyStr(<<"9", "9">>)),
           <<Q, "ok", Q, "LF">>,
           <<"4", "2">>,
           <<"{", Q, "jsonrpc", Q, ":", Q, "2.0", Q, "}", "LF">>,
           FragmentHead,
           FragmentTail,
           TwoMessages,
           <<"not json">>,
           <<"BAD8">> }

\* bytes.decode(): UTF-8; fails on a byte that is no UTF-8.
DecodeOk(data) == \A i \in 1..Len(data) : data[i] # "BAD8"

\* An empty check that never fires.
IsEmptyNever(response_json) == FALSE

\* An empty check that sits under `if self.verbose`.
IsEmptyWhenVerbose(response_json) == verbose /\ response_json = <<>>

\* Line 74: `if not response_json`.
IsEmpty(response_json) == response_json = <<>>

\* The index of the first line feed of data, Len(data) when it has none.
RECURSIVE FirstLineEnd(_, _)
FirstLineEnd(data, i) ==
    IF i >= Len(data) \/ data[i] = "LF" THEN i ELSE FirstLineEnd(data, i + 1)

\* A decoder that splits the received bytes into lines and decodes the first.
RecvOutcomeFirstLine(data) ==
    IF ~DecodeOk(data) THEN ExceptHandler("UnicodeDecodeError")
    ELSE IF IsEmpty(data) THEN ExceptHandler("ServerClosed")
    ELSE LET response == json_loads(SubSeq(data, 1, FirstLineEnd(data, 1)))
         IN  IF response.ok THEN Return(response.val)
             ELSE ExceptHandler("JSONDecodeError")

\* A decoder that raises the error object of an error response.
RecvOutcomeRaiseOnError(data) ==
    IF ~DecodeOk(data) THEN ExceptHandler("UnicodeDecodeError")
    ELSE IF IsEmpty(data) THEN ExceptHandler("ServerClosed")
    ELSE LET response == json_loads(data)
         IN  IF ~response.ok THEN ExceptHandler("JSONDecodeError")
             ELSE IF HasKey(response.val, <<"error">>) THEN ExceptHandler("RpcError")
             ELSE Return(response.val)

\* Lines 73-83 after recv returned data: decode, the empty check, json.loads.
RecvOutcome(data) ==
    IF ~DecodeOk(data) THEN ExceptHandler("UnicodeDecodeError")
    ELSE IF IsEmpty(data) THEN ExceptHandler("ServerClosed")
    ELSE LET response == json_loads(data)
         IN  IF response.ok THEN Return(response.val)
             ELSE ExceptHandler("JSONDecodeError")

\* The diagnostic lines of lines 73-83: the response when verbose, and the
\* handler's line when the call fails.
RecvDiagnostics(data) ==
    (IF verbose /\ DecodeOk(data) /\ ~IsEmpty(data) THEN <<"<<<">> ELSE <<>>)
    \o (IF RecvOutcome(data).kind = "raise"
        THEN <<"Error sending request">> ELSE <<>>)

\* A recv that gives up on a server that stays silent (a timeout).
RecvReadyTimeout(p) == TRUE

\* Line 73: recv blocks (no timeout is set on the socket, lines 36-37) until
\* the server sends bytes or closes, or the connection fails.
RecvReady(p) == p = "live"

\* A handler that forgets the connection when a call fails.
SocketAfterFailureReset(sock) == "None"

\* Lines 81-83: the handler leaves self.socket as it is.
SocketAfterFailure(sock) == sock

\* Line 71: socket.send accepted n bytes; the server behind the connection
\* will answer or close (live), or do neither (silent).
SendOk ==
    /\ pc = "send"
    /\ fd = "connected"
    /\ \E n \in SendCounts(line), p \in {"live", "silent"} :
          /\ written' = n
          /\ peer' = p
          /\ input' = Input("SendOk", NoOp, n, p, <<>>, FALSE)
    /\ sent' = "ok"
    /\ io' = Append(io, "send")
    /\ pc' = "recv"
    /\ UNCHANGED <<config, socket, fd, released, request_id, connects, calls, op, opCalls,
                   ids, request, line, recvd, received, outcome, stderr, closes, world>>

\* Line 71: socket.send raised (a closed socket, a reset, a broken pipe).
SendFails ==
    /\ pc = "send"
    /\ sent' = "err"
    /\ io' = Append(io, "send")
    /\ outcome' = ExceptHandler("OSError")
    /\ stderr' = Append(stderr, "Error sending request")
    /\ pc' = AfterFailure
    /\ socket' = SocketAfterFailure(socket)
    /\ input' = Step("SendFails")
    /\ UNCHANGED <<config, fd, released, request_id, connects, calls, op, opCalls,
                   ids, request, line, written, recvd, received, peer, closes, world>>

\* Line 73: socket.recv returned; the call ends with RecvOutcome.
RecvReturns ==
    /\ pc = "recv"
    /\ RecvReady(peer)
    /\ \E data \in ServerBytes(Wire) :
          LET got == SubSeq(data, 1, IF Len(data) < RecvMax THEN Len(data) ELSE RecvMax)
          IN  /\ received' = got
              /\ outcome' = RecvOutcome(got)
              /\ stderr' = stderr \o RecvDiagnostics(got)
              /\ pc' = IF RecvOutcome(got).kind = "raise" THEN AfterFailure ELSE "idle"
              /\ socket' = IF RecvOutcome(got).kind = "raise"
                            THEN SocketAfterFailure(socket) ELSE socket
              /\ input' = Input("RecvReturns", NoOp, 0, "", data, FALSE)
    /\ recvd' = "ok"
    /\ io' = Append(io, "recv")
    /\ UNCHANGED <<config, fd, released, request_id, connects, calls, op, opCalls,
                   ids, request, line, sent, written, peer, closes, world>>

\* Line 73: socket.recv raised.
RecvFails ==
    /\ pc = "recv"
    /\ RecvReady(peer)
    /\ recvd' = "err"
    /\ io' = Append(io, "recv")
    /\ outcome' = ExceptHandler("OSError")
    /\ stderr' = Append(stderr, "Error sending request")
    /\ pc' = AfterFailure
    /\ socket' = SocketAfterFailure(socket)
    /\ input' = Step("RecvFails")
    /\ UNCHANGED <<config, fd, released, request_id, connects, calls, op, opCalls,
                   ids, request, line, sent, written, received, peer, closes, world>>

(***************************************************************************)
(* close, lines 162-170.                                                   *)
(***************************************************************************)
\* A close() that lets the error of socket.close() through.
CloseOutcomePropagates(raised) ==
    IF raised THEN Raise("OSError") ELSE Return(None)

\* How close() ends when socket.close() raised (raised) or not: the handler
\* prints the error and falls off the end of the function.
CloseOutcome(raised) == Return(None)

CloseDiagnostics(raised) ==
    IF raised THEN <<"Error closing client">>
    ELSE IF verbose THEN <<"Disconnected">> ELSE <<>>

\* The body of close(), on a constructed instance.
CloseBody ==
    /\ pc = "idle"
    /\ op' = Op("close", None, None, None) /\ opCalls' = 0
    /\ closes' = closes + 1
    /\ IF socket # "None"
       THEN \E raised \in BOOLEAN :
               /\ fd' = "closed"
               /\ released' = IF raised THEN "err" ELSE "ok"
               /\ outcome' = CloseOutcome(raised)
               /\ stderr' = CloseDiagnostics(raised)
               /\ input' = Input("close", NoOp, 0, "", <<>>, raised)
       ELSE /\ fd' = fd /\ released' = released
            /\ outcome' = Return(None)
            /\ stderr' = <<>>
            /\ input' = Step("close")
    /\ UNCHANGED <<pc, config, socket, request_id, connects, calls, ids, callVars,
                   peer>>

close ==
    /\ closes < MaxCloses
    /\ CloseBody
    /\ UNCHANGED world

Next ==
    \/ ConnectOk
    \/ ConnectFails
    \/ log_message
    \/ get_entries
    \/ clear_logs
    \/ set_log_level
    \/ get_capabilities
    \/ SendOk
    \/ SendFails
    \/ RecvReturns
    \/ RecvFails
    \/ close

Spec == Init /\ [][Next]_vars

\* A client that makes at most MaxLiveCalls calls, with a server that, while
\* it is live, does send or close, or the connection fails: a blocking recv
\* (line 73) that can end does end, by returning or by raising.
LiveCall ==
    /\ calls < MaxLiveCalls
    /\ (get_capabilities \/ clear_logs)

LiveNext ==
    \/ ConnectOk
    \/ ConnectFails
    \/ LiveCall
    \/ SendOk
    \/ SendFails
    \/ RecvReturns
    \/ RecvFails
    \/ close

LiveSpec == Init /\ [][LiveNext]_vars /\ WF_vars(RecvFails \/ RecvReturns)

(***************************************************************************)
(* main(), lines 173-230: the driver.  One try block constructs the client *)
(* and makes nine calls in a fixed order; any Exception ends it with       *)
(* sys.exit(1); the finally block closes the client under a bare except.   *)
(***************************************************************************)
\* The number of calls in the try block, lines 186-214.
ScriptLen == 9

Myapp == PyStr(<<"myapp">>)

\* Lines 186-214: the i-th call of the try block.
ScriptCall(i) ==
    CASE i = 1 -> SendRequest(Op("log_message", Myapp, PyStr(<<"INFO">>),
                                 PyStr(<<"Application started">>)),
                              <<"log.message">>,
                              LogMessageParams(Myapp, PyStr(<<"INFO">>),
                                               PyStr(<<"Application started">>)))
      [] i = 2 -> SendRequest(Op("log_message", Myapp, PyStr(<<"DEBUG">>),
                                 PyStr(<<"Debug message">>)),
                              <<"log.message">>,
                              LogMessageParams(Myapp, PyStr(<<"DEBUG">>),
                                               PyStr(<<"Debug message">>)))
      [] i = 3 -> SendRequest(Op("log_message", Myapp, PyStr(<<"WARN">>),
                                 PyStr(<<"Warning message">>)),
                              <<"log.message">>,
                              LogMessageParams(Myapp, PyStr(<<"WARN">>),
                                               PyStr(<<"Warning message">>)))
      [] i = 4 -> SendRequest(Op("log_message", Myapp, PyStr(<<"ERROR">>),
                                 PyStr(<<"Error occurred">>)),
                              <<"log.message">>,
                              LogMessageParams(Myapp, PyStr(<<"ERROR">>),
                                               PyStr(<<"Error occurred">>)))
      [] i = 5 -> SendRequest(Op("get_entries", Myapp, None, None),
                              <<"log.getEntries">>, GetEntriesParams(Myapp, None))
      [] i = 6 -> SendRequest(Op("get_entries", Myapp, PyStr(<<"ERROR">>), None),
                              <<"log.getEntries">>,
                              GetEntriesParams(Myapp, PyStr(<<"ERROR">>)))
      [] i = 7 -> SendRequest(Op("set_log_level", Myapp, PyStr(<<"WARN">>), None),
                              <<"log.setLevel">>,
                              SetLogLevelParams(Myapp, PyStr(<<"WARN">>)))
      [] i = 8 -> SendRequest(Op("get_capabilities", None, None, None),
                              <<"system.capabilities">>, None)
      [] OTHER -> SendRequest(Op("clear_logs", Myapp, None, None),
                              <<"log.clear">>, ClearLogsParams(Myapp))

\* `key in x` raises TypeError when x is no container (int, bool, None).
InRaises(x) == x.k \in {"int", "bool", "none"}

\* `key in x`: a key of a dict, an item of a list, a part of a str.
In(key, x) ==
    CASE x.k = "dict" -> HasKey(x, key)
      [] x.k = "list" -> \E i \in 1..Len(x.v) : x.v[i] = PyStr(key)
      [] x.k = "str"  -> \E i \in 1..Len(x.v) : x.v[i] = key[1]
      [] OTHER        -> FALSE

\* x[key] with a str key raises TypeError unless x is a dict.
IndexRaises(x) == x.k # "dict"

\* len(x) raises TypeError when x has no length.
LenRaises(x) == x.k \in {"int", "bool", "none"}

\* Lines 194-195 and 200-201: whether the look at a get_entries response
\* raises (a TypeError).
ResponseCheckRaises(response) ==
    IF InRaises(response) THEN TRUE
    ELSE IF ~In(<<"result">>, response) THEN FALSE
    ELSE IF IndexRaises(response) THEN TRUE
    ELSE LET result == Get(response, <<"result">>)
         IN  IF InRaises(result) THEN TRUE
             ELSE IF ~In(<<"entries">>, result) THEN FALSE
             ELSE IF IndexRaises(result) THEN TRUE
             ELSE LenRaises(Get(result, <<"entries">>))

\* The statement after the last call raised: only calls 5 and 6 are followed
\* by a look at the response.
MainCheckRaises ==
    /\ calls \in {5, 6}
    /\ outcome.kind = "return"
    /\ ResponseCheckRaises(outcome.val)

\* The try block raised: the constructor, a call, or a look at a response.
MainRaised ==
    \/ pc = "dead"
    \/ pc = "idle" /\ outcome.kind = "raise"
    \/ pc = "idle" /\ MainCheckRaises

\* Line 182: client = Log4MCPClient(host="localhost", port=3000, verbose=True).
MainInit ==
    /\ ClientInit /\ verbose = TRUE
    /\ twin = NewClient(FALSE) /\ active = "A"
    /\ mainPc = "try" /\ exitStatus = 0

\* Lines 186-214: the next call of the try block.
MainCall ==
    /\ mainPc = "try"
    /\ calls < ScriptLen
    /\ ~MainRaised
    /\ ScriptCall(calls + 1)

\* A driver whose handlers leave without running the release step.
AfterExceptNoFinally == "exited"

\* Lines 218-225: sys.exit(1) raises SystemExit inside the handler; the
\* finally block runs before it leaves main.
AfterExcept == "finally"

\* Lines 218-223: either handler prints and calls sys.exit(1).
MainExcept ==
    /\ mainPc = "try"
    /\ MainRaised
    /\ mainPc' = AfterExcept
    /\ exitStatus' = 1
    /\ UNCHANGED <<twin, active>>
    /\ UNCHANGED clientVars

\* Lines 216-217: the try block ran to its end.
MainEnd ==
    /\ mainPc = "try"
    /\ calls = ScriptLen
    /\ pc = "idle"
    /\ ~MainRaised
    /\ mainPc' = "finally"
    /\ UNCHANGED <<twin, active, exitStatus>>
    /\ UNCHANGED clientVars

\* Lines 226-229: what leaves the finally block when its body raised exc
\* ("" when it raised nothing): the bare except swallows everything.
ReleaseGuard(exc) == ""

\* Where main ends: by returning or SystemExit, or with a traceback.
AfterFinally(exc) == IF ReleaseGuard(exc) = "" THEN "exited" ELSE "traceback"

\* Lines 224-229, client bound: client.close().
MainFinallyClose ==
    /\ mainPc = "finally"
    /\ pc # "dead"
    /\ CloseBody
    /\ mainPc' = AfterFinally(IF outcome'.kind = "raise" THEN outcome'.err ELSE "")
    /\ UNCHANGED <<twin, active, exitStatus>>

\* Lines 224-229, the constructor raised: the name client is unbound, and
\* client.close() raises UnboundLocalError before any call.
MainFinallyUnbound ==
    /\ mainPc = "finally"
    /\ pc = "dead"
    /\ mainPc' = AfterFinally("UnboundLocalError")
    /\ UNCHANGED <<twin, active, exitStatus>>
    /\ UNCHANGED clientVars

MainNext ==
    \/ ConnectOk
    \/ ConnectFails
    \/ MainCall
    \/ SendOk
    \/ SendFails
    \/ RecvReturns
    \/ RecvFails
    \/ MainExcept
    \/ MainEnd
    \/ MainFinallyClose
    \/ MainFinallyUnbound

MainSpec == MainInit /\ [][MainNext]_vars

(***************************************************************************)
(* Two instances.  The variables hold the instance that runs; twin holds   *)
(* the other one; Switch passes control from one to the other at any       *)
(* point, so that the steps of the two interleave freely.                  *)
(***************************************************************************)
\* Each of the two instances makes at most MaxTwoCalls calls.
MaxTwoCalls == 2

\* A counter kept on the class: one value for all instances.
RequestIdOfShared(mine, theirs) == mine

\* Lines 29 and 58: request_id is an attribute of the instance (set on self
\* in __init__, advanced on self): the other instance has its own.
RequestIdOf(mine, theirs) == theirs

\* The variables take the fields of the instance rec.
Load(rec) ==
    /\ pc' = rec.pc
    /\ host' = rec.host /\ port' = rec.port /\ verbose' = rec.verbose
    /\ socket' = rec.socket /\ fd' = rec.fd
    /\ request_id' = RequestIdOf(request_id, rec.request_id)
    /\ connects' = rec.connects /\ calls' = rec.calls
    /\ op' = rec.op /\ opCalls' = rec.opCalls
    /\ ids' = rec.ids /\ request' = rec.request /\ line' = rec.line
    /\ sent' = rec.sent /\ written' = rec.written
    /\ recvd' = rec.recvd /\ received' = rec.received
    /\ io' = rec.io /\ released' = rec.released
    /\ outcome' = rec.outcome /\ stderr' = rec.stderr
    /\ peer' = rec.peer /\ closes' = rec.closes /\ input' = rec.input

\* Control passes to the other instance: every field read from now on is
\* that instance's field (lines 25-29: all of them are set on self).
Switch ==
    /\ Load(twin)
    /\ twin' = Fields
    /\ active' = IF active = "A" THEN "B" ELSE "A"
    /\ UNCHANGED <<mainPc, exitStatus>>

TwoCall ==
    /\ calls < MaxTwoCalls
    /\ get_capabilities

TwoNext ==
    \/ ConnectOk
    \/ ConnectFails
    \/ TwoCall
    \/ SendOk
    \/ SendFails
    \/ RecvReturns
    \/ RecvFails
    \/ close
    \/ Switch

TwoSpec == Init /\ [][TwoNext]_vars

(***************************************************************************)
(* Two instances in lockstep.  Instance A is quiet (verbose = False) and   *)
(* instance B is verbose; in each round A takes one step, recorded in      *)
(* input, and B takes the same step: the same operation with the same      *)
(* arguments, and the same answers of the socket and the server.           *)
(***************************************************************************)
\* Each of the two instances makes at most MaxPairCalls calls.
MaxPairCalls == 2

\* The quiet instance in hand, the verbose one waiting.
PairInit ==
    /\ ClientInit /\ verbose = FALSE
    /\ twin = NewClient(TRUE) /\ active = "A"
    /\ mainPc = "off" /\ exitStatus = 0

\* A's turn: any step.  B's turn: the step A has just taken.
Paired(A) ==
    /\ input = NoInput
    /\ A
    /\ active = "B" => input' = twin.input

PairCall ==
    /\ calls < MaxPairCalls
    /\ (log_message \/ get_entries \/ clear_logs \/ set_log_level \/ get_capabilities)

\* A has taken its step: B's turn.
PairHandOver ==
    /\ active = "A"
    /\ input # NoInput
    /\ Switch

\* B has taken the same step: the round ends, and A is in hand again.
PairRound ==
    /\ active = "B"
    /\ input # NoInput
    /\ Load([twin EXCEPT !.input = NoInput])
    /\ twin' = [Fields EXCEPT !.input = NoInput]
    /\ active' = "A"
    /\ UNCHANGED <<mainPc, exitStatus>>

PairNext ==
    \/ Paired(ConnectOk)
    \/ Paired(ConnectFails)
    \/ Paired(PairCall)
    \/ Paired(SendOk)
    \/ Paired(SendFails)
    \/ Paired(RecvReturns)
    \/ Paired(RecvFails)
    \/ Paired(close)
    \/ PairHandOver
    \/ PairRound

PairSpec == PairInit /\ [][PairNext]_vars

(***************************************************************************)
(* Properties.                                                             *)
(***************************************************************************)
\* int(text) for a run of decimal digits.
DigitValue(c) == (CHOOSE i \in 1..10 : Digits[i] = c) - 1

RECURSIVE IntOf(_)
IntOf(s) ==
    IF Len(s) = 0 THEN 0
    ELSE 10 * IntOf(SubSeq(s, 1, Len(s) - 1)) + DigitValue(s[Len(s)])

\* A decimal numeral in canonical form, as a Python str.
IsNumeral(x) ==
    /\ x.k = "str" /\ Len(x.v) > 0
    /\ \A i \in 1..Len(x.v) : x.v[i] \in DigitSet
    /\ Len(x.v) > 1 => x.v[1] # "0"

Facade == {"log_message", "get_entries", "clear_logs", "set_log_level",
           "get_capabilities"}

IsCall == op.name \in Facade

\* C1: every call builds one envelope, and the ids of the envelopes built so
\* far are the decimal strings "1", "2", ..., "N" in call order, whatever
\* the outcome of each call was.
C1_IdsAreOneToN ==
    /\ Len(ids) = calls
    /\ \A i \in 1..Len(ids) : IsNumeral(ids[i]) /\ IntOf(ids[i].v) = i

\* C1 witness: MaxCalls calls were made, the last one failed, and its id has
\* two digits.
C1_Witness ==
    /\ calls = MaxCalls /\ IsCall /\ pc = "idle"
    /\ outcome.kind = "raise"
    /\ Len(ids[Len(ids)].v) = 2

\* C2 (as claimed): a call issued when the connection is not open ends with
\* the not-connected error and issues no send and no receive.
C2_NotConnectedNoIO ==
    (IsCall /\ op.fdAtStart # "connected")
        => /\ io = <<>>
           /\ pc = "idle" => outcome = Raise("NotConnected")

\* C3: when the receive of a call returns zero bytes, the call raises the
\* connection-closed error and returns no value.
C3_EmptyReadFails ==
    (IsCall /\ recvd = "ok" /\ received = <<>>)
        => outcome = Raise("ServerClosed")

C3_Witness ==
    IsCall /\ pc = "idle" /\ recvd = "ok" /\ received = <<>>
    /\ outcome.kind = "raise"

\* C4: when the receive returns bytes that are not empty and are not one
\* JSON document, the call raises a parse error and returns no value.
C4_UnparsableFails ==
    (/\ IsCall /\ recvd = "ok" /\ received # <<>>
     /\ ~(DecodeOk(received) /\ json_loads(received).ok))
        => /\ outcome.kind = "raise"
           /\ outcome.err \in {"JSONDecodeError", "UnicodeDecodeError"}

C4_Witness ==
    IsCall /\ pc = "idle" /\ recvd = "ok" /\ received = <<"not json">>
    /\ outcome = Raise("JSONDecodeError")

\* The structure of an envelope: an object with "jsonrpc" and "id".
IsEnvelope(x) == HasKey(x, <<"jsonrpc">>) /\ HasKey(x, <<"id">>)

\* C5 (as claimed): when the received bytes are a JSON document that is no
\* envelope, the call raises and returns no value.
C5_NonEnvelopeFails ==
    (/\ IsCall /\ recvd = "ok" /\ DecodeOk(received)
     /\ json_loads(received).ok /\ ~IsEnvelope(json_loads(received).val))
        => outcome.kind = "raise"

\* C6: the socket I/O of one call is a prefix of <<send, recv>>; a receive
\* is issued only after the send of the call returned without error; a
\* failed call is over (no second send or receive); and the client never
\* connects a second time.
C6_HalfDuplexNoRetry ==
    /\ io \in {<<>>, <<"send">>, <<"send", "recv">>}
    /\ Len(io) = 2 => sent = "ok"
    /\ pc = "recv" => (io = <<"send">> /\ sent = "ok")
    /\ outcome.kind = "raise" => pc \in {"idle", "dead"}
    /\ connects <= 1

C6_Witness ==
    IsCall /\ pc = "idle" /\ io = <<"send", "recv">> /\ outcome.kind = "raise"

\* C7 (as claimed): when the send step returns without error, the whole
\* request line has been written.
C7_SendWritesAll ==
    sent = "ok" => written = Len(line)

\* C8: close() returns normally in every state it is called in, and an
\* error of the socket release is printed on the diagnostic stream.
C8_CloseNeverRaises ==
    op.name = "close"
        => /\ outcome = Return(None)
           /\ released = "err" => stderr = <<"Error closing client">>

\* C8 witness: a further close, after a failed call, whose socket release
\* raised.
C8_Witness ==
    /\ op.name = "close" /\ op.fdAtStart = "closed" /\ released = "err"
    /\ sent = "err"
    /\ outcome.kind = "return"

\* The method and params of the table, from the arguments of the operation.
TableMethod ==
    CASE op.name = "log_message"      -> <<"log.message">>
      [] op.name = "get_entries"      -> <<"log.getEntries">>
      [] op.name = "clear_logs"       -> <<"log.clear">>
      [] op.name = "set_log_level"    -> <<"log.setLevel">>
      [] op.name = "get_capabilities" -> <<"system.capabilities">>

TableParams ==
    CASE op.name = "log_message" ->
            << <<(<<"loggerId">>), op.logger_id>>, <<(<<"level">>), op.level>>,
               <<(<<"message">>), op.message>> >>
      [] op.name \in {"get_entries", "set_log_level"} ->
            << <<(<<"loggerId">>), op.logger_id>>, <<(<<"level">>), op.level>> >>
      [] op.name = "clear_logs" -> << <<(<<"loggerId">>), op.logger_id>> >>
      [] op.name = "get_capabilities" -> <<>>

\* C9: a facade operation makes exactly one call, and the JSON document on
\* the request line carries the method and the params of the table, the
\* level as given (None as null, under the key "level").
C9_FacadeTable ==
    IsCall =>
        LET doc == json_loads(line)
        IN  /\ opCalls = 1
            /\ doc.ok /\ doc.val = request
            /\ Get(doc.val, <<"method">>) = PyStr(TableMethod)
            /\ Get(doc.val, <<"params">>) = PyDict(TableParams)

\* C9 witness: get_entries without a level filter, sent.
C9_Witness ==
    /\ op.name = "get_entries" /\ op.level = None /\ sent = "ok"
    /\ HasKey(Get(json_loads(line).val, <<"params">>), <<"level">>)

\* C10: when the whole request line was written and the receive returned the
\* echo responder's answer to it, the k-th call returns a response whose id
\* is the id of its request, the string str(k).
C10_EchoRoundTrip ==
    (/\ IsCall /\ sent = "ok" /\ written = Len(line)
     /\ recvd = "ok" /\ received \in EchoResponder(line))
        => /\ outcome.kind = "return"
           /\ HasKey(outcome.val, <<"id">>)
           /\ Get(outcome.val, <<"id">>) = Get(request, <<"id">>)
           /\ IsNumeral(Get(outcome.val, <<"id">>))
           /\ IntOf(Get(outcome.val, <<"id">>).v) = calls

C10_Witness ==
    /\ IsCall /\ pc = "idle" /\ calls = MaxCalls
    /\ sent = "ok" /\ written = Len(line)
    /\ recvd = "ok" /\ received \in EchoResponder(line)
    /\ outcome.kind = "return"

\* C12: at most one connection is ever attempted, at construction; when it
\* fails no instance results (nothing is ever called on it); when it
\* succeeds the instance keeps that one socket, and no later step connects
\* again, replaces the socket or reopens it.
C12_OneConnection ==
    /\ [](/\ connects <= 1
          /\ pc \in {"idle", "send", "recv"}
                => (connects = 1 /\ socket = "sock" /\ fd # "unopened")
          /\ pc = "dead" => (outcome.kind = "raise" /\ calls = 0 /\ closes = 0))
    /\ [][pc # "new" => /\ connects' = connects
                        /\ socket' = socket
                        /\ fd' \in {fd, "closed"}
                        /\ pc = "dead" => pc' = "dead"]_vars

\* C12 witness: a constructed client after two calls, a failure and a close.
C12_Witness ==
    /\ pc = "idle" /\ connects = 1 /\ calls >= 2 /\ closes >= 1
    /\ outcome.kind = "raise"

\* C13: a call leaves its receive only when the receive returned or raised;
\* while the server stays silent the call stays blocked in it; and while the
\* server is live (it will send or close) the call eventually ends.
C13_BlocksUntilResponse ==
    /\ [][(pc = "recv" /\ pc' # "recv")
             => (recvd' \in {"ok", "err"} /\ io' = <<"send", "recv">>)]_vars
    /\ [][(pc = "recv" /\ peer = "silent")
             => (pc' = "recv" /\ peer' = "silent" /\ outcome' = NoOutcome)]_vars
    /\ ((pc = "recv" /\ peer = "live") ~> (pc = "idle" /\ outcome.kind # "none"))

\* C13 witness: a call blocked in recv on a silent server.
C13_Witness ==
    IsCall /\ pc = "recv" /\ peer = "silent" /\ sent = "ok" /\ outcome = NoOutcome

\* C14: a call decodes the bytes of its own single receive and nothing else:
\* either fragment of a response read alone is a parse error, with no
\* further read; two messages read together are a parse error (the first
\* is not returned); and a value returned is the document those bytes hold.
C14_SingleReadFraming ==
    (IsCall /\ recvd = "ok")
        => /\ io = <<"send", "recv">>
           /\ pc = "idle"
           /\ received \in {FragmentHead, FragmentTail, TwoMessages}
                 => outcome = Raise("JSONDecodeError")
           /\ outcome.kind = "return"
                 => (/\ DecodeOk(received) /\ json_loads(received).ok
                     /\ outcome.val = json_loads(received).val)

C14_Witness ==
    IsCall /\ pc = "idle" /\ recvd = "ok" /\ received = TwoMessages
    /\ outcome.kind = "raise"

C16_OneLinePerRequest ==
    (IsCall /\ sent = "ok")
        => /\ Len(Wire) >= 2
           /\ Wire[Len(Wire)] = "LF"
           /\ \A i \in 1..(Len(Wire) - 1) : Wire[i] # "LF"
           /\ json_loads(SubSeq(Wire, 1, Len(Wire) - 1)).ok
           /\ json_loads(SubSeq(Wire, 1, Len(Wire) - 1)).val = request

\* C18: a step that ends a call in failure leaves the socket handle, the
\* connection, host, port, verbose and the counter as they are; the counter
\* stands one above its value before the call; and the next call passes the
\* connected check and goes on to send.
C18_FailedCallFrame ==
    /\ []((IsCall /\ outcome.kind = "raise")
             => (request_id = calls /\ ~NotConnected(socket)))
    /\ [][(pc \in {"send", "recv"} /\ outcome'.kind = "raise")
             => /\ socket' = socket /\ fd' = fd
                /\ host' = host /\ port' = port /\ verbose' = verbose
                /\ request_id' = request_id]_vars
    /\ [][(pc = "idle" /\ calls' = calls + 1)
             => (pc' = "send" /\ request_id' = request_id + 1
                 /\ socket' = socket /\ fd' = fd)]_vars

\* C18 witness: a second call has failed on the open connection after its
\* receive.
C18_Witness ==
    /\ IsCall /\ pc = "idle" /\ calls >= 2
    /\ outcome.kind = "raise" /\ io = <<"send", "recv">>
    /\ socket = "sock" /\ fd = "connected"

\* C19: in main(), when the client was constructed, close() has been invoked
\* on it exactly once when the program ends, after a full run and after a
\* failure midway alike, and never before the release step; when the
\* constructor failed, close() is never invoked, the release step lets no
\* exception out and the program exits with status 1.
C19_ReleasedOnce ==
    /\ [](closes <= 1)
    /\ [](mainPc # "traceback")
    /\ []((mainPc = "exited" /\ pc # "dead")
             => (closes = 1 /\ op.name = "close" /\ fd = "closed"))
    /\ []((mainPc = "exited" /\ pc = "dead") => (closes = 0 /\ exitStatus = 1))
    /\ []((mainPc \in {"finally", "exited"} /\ calls < ScriptLen) => exitStatus = 1)
    /\ [][closes' # closes => (mainPc = "finally" /\ mainPc' = "exited")]_vars

\* C19 witness: a request failed midway and the program ended with the
\* client closed.
C19_Witness ==
    /\ mainPc = "exited" /\ exitStatus = 1
    /\ calls \in 1..(ScriptLen - 1)
    /\ closes = 1 /\ fd = "closed"

\* C17: with two instances whose steps interleave in any order, the ids of
\* each instance are "1", "2", ... in its own call order; the counter of
\* each instance stands at the number of calls made on that instance; a step
\* of one instance changes nothing of the other; and control finds the
\* other instance as that instance left it.
C17_PerInstanceCounter ==
    /\ [](/\ C1_IdsAreOneToN
          /\ request_id = calls
          /\ Len(twin.ids) = twin.calls
          /\ \A i \in 1..Len(twin.ids) :
                IsNumeral(twin.ids[i]) /\ IntOf(twin.ids[i].v) = i
          /\ twin.request_id = twin.calls)
    /\ [][active' = active => twin' = twin]_vars
    /\ [][active' # active => (twin' = Fields /\ Fields' = twin)]_vars

\* C17 witness: the instance that runs has just made its first call, with
\* its own id "1", while the other instance has already made two.
C17_Witness ==
    /\ active = "B" /\ pc = "send" /\ calls = 1 /\ ids = <<PyStr(<<"1">>)>>
    /\ twin.calls = 2 /\ twin.request_id = 2 /\ twin.socket = "sock"

\* What of an instance the protocol sees: everything but the verbose flag
\* and the diagnostic stream.
Protocol(f) == [f EXCEPT !.verbose = FALSE, !.stderr = <<>>]

\* C11: a quiet and a verbose client that have taken the same steps against
\* the same socket and server behaviour agree on everything but the
\* diagnostics: the line built and the count of bytes written, the sends and
\* receives issued, the outcome of the operation (value or error), the
\* request-id counter and ids, and the connection state.
C11_VerboseNoEffect ==
    (active = "B" /\ input # NoInput)
        => /\ verbose /\ ~twin.verbose
           /\ input = twin.input
           /\ Protocol(Fields) = Protocol(twin)

\* C11 witness: both have made a second call and got its response, which
\* only the verbose one printed.
C11_Witness ==
    /\ active = "B" /\ input.act = "RecvReturns"
    /\ calls = 2 /\ outcome.kind = "return"
    /\ stderr = <<">>>", "<<<">> /\ twin.stderr = <<>>

====
